---- MODULE Spec2Model ----
(***************************************************************************)
(* Model of scripts/gdc/gdc_download.py: one invocation of main(), the     *)
(* external transfer client it spawns, and the reader thread that drains   *)
(* the client's output into the run log.                                   *)
(*                                                                         *)
(* Text is modelled at the granularity the code inspects it:               *)
(*  - a manifest line is a sequence of tokens, TAB being the separator     *)
(*    split("\t") looks for and NL the newline rstrip("\n") removes;       *)
(*  - a line of child output is a sequence of characters, because the      *)
(*    progress line lower-cases it and searches it for substrings.         *)
(* Wall-clock time (the elapsed field, the length of a sleep) is not part  *)
(* of the state.                                                           *)
(***************************************************************************)
EXTENDS Integers, Sequences, FiniteSets, TLC

\* ------------------------------------------------------------------ bounds
MaxRows    == 3   \* rows of the longest manifest, runs of a silent client
MaxRunRows == 1   \* rows of the longest manifest, runs of a client that writes
MaxLines   == 2   \* lines the client writes to its output stream, at most
MaxAuditRows == 2 \* rows handed to a standalone verifier or counter call
MaxCalls   == 2   \* standalone calls in a row
MaxParseLines == 2 \* data lines of the longest manifest parsed on its own
MaxParses  == 2   \* calls of the parser on one manifest file
MaxNow     == 3   \* clock ticks two concurrent runs are followed for
TicksPerSecond == 2 \* clock ticks within one second of _ts()
MaxTouches == 1   \* changes others make to the output tree between calls

\* --------------------------------------------------------------- constants
VerifyFailCode == 2
TailMax        == 120

TAB == "TAB"
NL  == "NL"

\* ------------------------------------------------------------ text helpers
Take(s, n) == SubSeq(s, 1, IF n < Len(s) THEN n ELSE Len(s))

\* str.rstrip("\n") on a token line
RECURSIVE RStripNL(_)
RStripNL(line) ==
    IF line # <<>> /\ line[Len(line)] = NL
    THEN RStripNL(SubSeq(line, 1, Len(line) - 1))
    ELSE line

\* str.split("\t"): the fields between separators, empty fields included
RECURSIVE Split(_)
Split(line) ==
    IF \A i \in 1..Len(line) : line[i] # TAB
    THEN <<line>>
    ELSE LET i == CHOOSE k \in 1..Len(line) :
                      line[k] = TAB /\ \A j \in 1..(k-1) : line[j] # TAB
         IN  <<SubSeq(line, 1, i - 1)>> \o Split(SubSeq(line, i + 1, Len(line)))

\* a loop that ends at the first malformed line
RECURSIVE ParseRows_StopAtBad(_)
ParseRows_StopAtBad(lines) ==
    IF lines = <<>> THEN <<>>
    ELSE LET parts == Split(RStripNL(Head(lines)))
         IN  IF Len(parts) < 2
             THEN <<>>
             ELSE <<[id |-> parts[1], filename |-> parts[2]]>>
                  \o ParseRows_StopAtBad(Tail(lines))

\* the rows of the data lines, malformed lines dropped
RECURSIVE ParseRows(_)
ParseRows(lines) ==
    IF lines = <<>> THEN <<>>
    ELSE LET parts == Split(RStripNL(Head(lines)))
         IN  IF Len(parts) < 2
             THEN ParseRows(Tail(lines))
             ELSE <<[id |-> parts[1], filename |-> parts[2]]>> \o ParseRows(Tail(lines))

\* a parser that looks at the first column name only
ReadManifest_FirstColumnOnly(m) ==
    IF ~m.readable
    THEN [err |-> "OSError", rows |-> <<>>]
    ELSE LET first  == IF m.lines = <<>> THEN <<>> ELSE Head(m.lines)
             header == Split(RStripNL(first))
         IN  IF Take(header, 1) # << <<"id">> >>
             THEN [err |-> "SystemExit", rows |-> <<>>]
             ELSE [err |-> "", rows |-> ParseRows(Tail(m.lines))]

\* _read_manifest: err is "" when the rows were returned
ReadManifest(m) ==
    IF ~m.readable
    THEN [err |-> "OSError", rows |-> <<>>]
    ELSE LET first  == IF m.lines = <<>> THEN <<>> ELSE Head(m.lines)
             header == Split(RStripNL(first))
         IN  IF Take(header, 2) # << <<"id">>, <<"filename">> >>
             THEN [err |-> "SystemExit", rows |-> <<>>]
             ELSE [err |-> "", rows |-> ParseRows(Tail(m.lines))]

\* pathlib's "/" drops an empty component
Comp(field) == IF field = <<>> THEN <<>> ELSE <<field>>

ExpectedPath(out_dir, file_id, filename) == out_dir \o Comp(file_id) \o Comp(filename)

OutDir == << <<"out">> >>

\* Path.exists() and Path.stat().st_size against a disk: the paths that
\* exist, each with its content
PathExists(d, p) == p \in DOMAIN d

PathSize(d, p) == Len(d[p])

\* _count_completed with the existence test inverted
RECURSIVE CountCompleted_Inverted(_, _)
CountCompleted_Inverted(manifest_rows, d) ==
    IF manifest_rows = <<>> THEN 0
    ELSE LET r == Head(manifest_rows)
         IN  (IF PathExists(d, ExpectedPath(OutDir, r.id, r.filename)) THEN 0 ELSE 1)
             + CountCompleted_Inverted(Tail(manifest_rows), d)

\* a counter that passes over empty files
RECURSIVE CountCompleted_NonEmpty(_, _)
CountCompleted_NonEmpty(manifest_rows, d) ==
    IF manifest_rows = <<>> THEN 0
    ELSE LET r == Head(manifest_rows)
             p == ExpectedPath(OutDir, r.id, r.filename)
         IN  (IF PathExists(d, p) /\ PathSize(d, p) > 0 THEN 1 ELSE 0)
             + CountCompleted_NonEmpty(Tail(manifest_rows), d)

\* _count_completed
RECURSIVE CountCompleted(_, _)
CountCompleted(manifest_rows, d) ==
    IF manifest_rows = <<>> THEN 0
    ELSE LET r == Head(manifest_rows)
         IN  (IF PathExists(d, ExpectedPath(OutDir, r.id, r.filename)) THEN 1 ELSE 0)
             + CountCompleted(Tail(manifest_rows), d)

\* a status that takes every existing path for a good file
RowStatus_NoEmpty(r, d) ==
    LET p == ExpectedPath(OutDir, r.id, r.filename)
    IN  IF ~PathExists(d, p) THEN "MISSING" ELSE "OK"

\* a status with the size test inverted
RowStatus_SizeInverted(r, d) ==
    LET p == ExpectedPath(OutDir, r.id, r.filename)
    IN  IF ~PathExists(d, p) THEN "MISSING"
        ELSE IF PathSize(d, p) # 0 THEN "EMPTY"
        ELSE "OK"

\* the status column _verify_download writes for one row
RowStatus(r, d) ==
    LET p == ExpectedPath(OutDir, r.id, r.filename)
    IN  IF ~PathExists(d, p) THEN "MISSING"
        ELSE IF PathSize(d, p) = 0 THEN "EMPTY"
        ELSE "OK"

\* records for the rows that are on the disk only
RECURSIVE VerifyRecords_SkipMissing(_, _)
VerifyRecords_SkipMissing(manifest_rows, d) ==
    IF manifest_rows = <<>> THEN <<>>
    ELSE LET r == Head(manifest_rows)
             p == ExpectedPath(OutDir, r.id, r.filename)
             s == RowStatus(r, d)
         IN  (IF s = "MISSING" THEN <<>>
              ELSE <<[id |-> r.id, filename |-> r.filename, expected_path |-> p,
                      status |-> s, size_bytes |-> <<PathSize(d, p)>>]>>)
             \o VerifyRecords_SkipMissing(Tail(manifest_rows), d)

\* the records of the report, in manifest order
RECURSIVE VerifyRecords(_, _)
VerifyRecords(manifest_rows, d) ==
    IF manifest_rows = <<>> THEN <<>>
    ELSE LET r == Head(manifest_rows)
             p == ExpectedPath(OutDir, r.id, r.filename)
             s == RowStatus(r, d)
         IN  <<[id |-> r.id, filename |-> r.filename, expected_path |-> p,
                status |-> s,
                size_bytes |-> IF s = "MISSING" THEN <<>> ELSE <<PathSize(d, p)>>]>>
             \o VerifyRecords(Tail(manifest_rows), d)

CountStatus(recs, s) == Cardinality({i \in 1..Len(recs) : recs[i].status = s})

\* str(p): the components joined by "/"
RECURSIVE PathStr(_)
PathStr(p) ==
    IF p = <<>> THEN <<>>
    ELSE IF Len(p) = 1 THEN Head(p)
    ELSE Head(p) \o <<"/">> \o PathStr(Tail(p))

DecimalDigits == <<"0", "1", "2", "3", "4", "5", "6", "7", "8", "9">>

\* str(size)
RECURSIVE SizeStr(_)
SizeStr(n) ==
    IF n < 10 THEN <<DecimalDigits[n + 1]>>
    ELSE SizeStr(n \div 10) \o <<DecimalDigits[(n % 10) + 1]>>

\* the first row of the report
ReportHeader ==
    << <<"id">>, <<"filename">>, <<"expected_path">>, <<"status">>, <<"size_bytes">> >>

\* the row csv.writer gets for one record
CsvRow(rec) ==
    <<rec.id, rec.filename, PathStr(rec.expected_path), <<rec.status>>,
      IF rec.size_bytes = <<>> THEN <<>> ELSE SizeStr(rec.size_bytes[1])>>

\* _verify_download: the report it writes and the triple it returns
VerifyDownload(manifest_rows, d) ==
    LET recs == VerifyRecords(manifest_rows, d)
    IN  [report  |-> <<ReportHeader>> \o [i \in 1..Len(recs) |-> CsvRow(recs[i])],
         ok      |-> CountStatus(recs, "OK"),
         missing |-> CountStatus(recs, "MISSING"),
         empty   |-> CountStatus(recs, "EMPTY")]

\* ------------------------------------------------- child output, tail line
IsSpace(c) == c \in {" ", "\n"}

\* str.strip()
RECURSIVE Strip(_)
Strip(s) ==
    IF s = <<>> THEN s
    ELSE IF IsSpace(s[1]) THEN Strip(Tail(s))
    ELSE IF IsSpace(s[Len(s)]) THEN Strip(SubSeq(s, 1, Len(s) - 1))
    ELSE s

UpperLetters ==
    <<"A","B","C","D","E","F","G","H","I","J","K","L","M",
      "N","O","P","Q","R","S","T","U","V","W","X","Y","Z">>

LowerLetters ==
    <<"a","b","c","d","e","f","g","h","i","j","k","l","m",
      "n","o","p","q","r","s","t","u","v","w","x","y","z">>

\* str.lower() on one character
LowerChar(c) ==
    IF \E i \in 1..Len(UpperLetters) : UpperLetters[i] = c
    THEN LowerLetters[CHOOSE i \in 1..Len(UpperLetters) : UpperLetters[i] = c]
    ELSE c

Lower(s) == [i \in 1..Len(s) |-> LowerChar(s[i])]

Contains(s, k) == \E i \in 1..(Len(s) - Len(k) + 1) : SubSeq(s, i, i + Len(k) - 1) = k

Keywords ==
    { <<"d","o","w","n","l","o","a","d">>, <<"e","r","r","o","r">>,
      <<"r","e","t","r","y">>, <<"c","o","m","p","l","e","t","e">>,
      <<"s","a","v","e","d">>, <<"s","k","i","p","p","i","n","g">> }

\* an excerpt chosen without lowering the line
TailShort_CaseSensitive(t) ==
    IF t # <<>> /\ \E k \in Keywords : Contains(t, k)
    THEN Take(t, TailMax)
    ELSE <<>>

\* the " | last: ..." suffix of the progress line, <<>> when there is none
TailShort(t) ==
    IF t # <<>> /\ \E k \in Keywords : Contains(Lower(t), k)
    THEN Take(t, TailMax)
    ELSE <<>>

\* integer part of (done / total) * 100.0
Pct(done_, total_) == (done_ * 100) \div total_

\* a progress line whose resumed_from shows the current count
ProgressLine_Current(done_, total_, initial_done_, t) ==
    [done |-> done_, total |-> total_, pct |-> Pct(done_, total_),
     resumed_from |-> done_, tail_short |-> TailShort(t)]

\* the fields of one rendered progress line
ProgressLine(done_, total_, initial_done_, t) ==
    [done |-> done_, total |-> total_, pct |-> Pct(done_, total_),
     resumed_from |-> initial_done_, tail_short |-> TailShort(t)]

\* ------------------------------------------------------------------ inputs
IdNames   == <<"id1", "id2", "id3", "id4", "id5">>
FileNames == <<"f1.txt", "f2.txt", "f3.txt", "f4.txt", "f5.txt">>

HeaderLine == <<"id", TAB, "filename", NL>>
RowLine(i) == <<IdNames[i], TAB, FileNames[i], NL>>
BadLine    == <<"junk", NL>>

RowLines(n) == [i \in 1..n |-> RowLine(i)]

\* the manifest files a run is started on, of at most n rows
RunManifests(n) ==
    { [readable |-> FALSE, lines |-> <<>>],
      [readable |-> TRUE,  lines |-> <<>>],
      [readable |-> TRUE,  lines |-> << <<"filename", TAB, "id", NL>>, RowLine(1) >>],
      [readable |-> TRUE,  lines |-> <<HeaderLine, BadLine>>],
      [readable |-> TRUE,  lines |-> <<HeaderLine, BadLine, RowLine(1)>>] }
    \cup { [readable |-> TRUE, lines |-> <<HeaderLine>> \o RowLines(k)] : k \in 0..n }

\* --progress_every: the default, and the values a caller may pass instead
DefaultProgressEvery == 10

ProgressEverys == {-1, 0, 1, 2, DefaultProgressEvery}

RunArgs ==
    [verify_after : BOOLEAN, fail_on_verify : BOOLEAN, token_file : {<<>>},
     progress_every : {DefaultProgressEvery}]

\* runs over the values of --progress_every, with and without --verify_after
LoopArgs ==
    [verify_after : BOOLEAN, fail_on_verify : {FALSE}, token_file : {<<>>},
     progress_every : ProgressEverys]

\* the expected paths of a manifest, as the transfer client lays them out
PathsOf(m) ==
    LET rs == ReadManifest(m).rows
    IN  {ExpectedPath(OutDir, rs[i].id, rs[i].filename) : i \in 1..Len(rs)}

\* what a file of the output tree holds during a run: nothing, or data
RunContents == {<<>>, <<"x">>}

\* every disk holding some of the paths, each with one of the contents
Disks(paths, contents) == UNION { [ps -> contents] : ps \in SUBSET paths }

\* the k-th line the child writes
ChildLineTexts == << <<" ", "E", "R", "R", "O", "R", "\n">>, <<"o", "k", "\n">> >>

ChildLine(k) == ChildLineTexts[((k - 1) % Len(ChildLineTexts)) + 1]

Cmd(a, m) ==
    <<"gdc-client", "download", "-m", "manifest", "-d", "out", "-n", "threads">>
    \o (IF a.token_file # <<>> THEN <<"-t">> \o a.token_file ELSE <<>>)

\* the block main() writes when it opens the log
HeaderBlock(a, m) ==
    << [kind |-> "CMD", text |-> Cmd(a, m)],
       [kind |-> "MANIFEST", text |-> <<"manifest">>],
       [kind |-> "OUT_DIR", text |-> <<"out">>],
       [kind |-> "THREADS", text |-> <<"threads">>] >>
    \o (IF a.token_file # <<>>
        THEN <<[kind |-> "TOKEN_FILE", text |-> a.token_file]>> ELSE <<>>)
    \o <<[kind |-> "BLANK", text |-> <<>>]>>

\* ------------------------------------------------------------------- state
VARIABLES
    args,          \* parsed command line
    manifest,      \* the manifest file
    disk,          \* output tree: path -> content, for the paths that exist
    disk0,         \* the output tree when main() was entered
    dirs,          \* directories main() has created
    pc,            \* position of the main thread
    manifest_rows, \* local of main()
    total,         \* local of main()
    log,           \* the run log file and the handle lf
    initial_done,  \* local of main()
    child,         \* the transfer client process
    nOut,          \* lines the child has written so far
    pipe,          \* child output not yet read
    rpc,           \* position of the reader thread
    rline,         \* the line the reader thread holds
    last_line,     \* the shared cell last_line["text"]
    lock,          \* owner of last_line_lock
    rc,            \* local of main(): <<>> is None
    done,          \* local of main(): <<>> before the first count
    tail,          \* local of main()
    shown,         \* the progress line on the terminal, <<>> before the first
    sincePoll,     \* what the loop did since its last poll
    slept,         \* the seconds the last sleep since that poll took
    report,        \* the verification report file
    verify,        \* the triple of the last verifier pass, and the passes so far
    result,        \* how main() ended
    calls,         \* standalone calls of the verifier and the counter, in order
    parsed,        \* what _read_manifest gave, <<>> before it was called
    now,           \* wall clock, in ticks
    runs,          \* two invocations sharing a log directory
    logdir,        \* the log files of that directory
    wrap           \* a stage wrapper that runs the orchestrator as a process

vars == <<args, manifest, disk, disk0, dirs, pc, manifest_rows, total, log,
          initial_done, child, nOut, pipe, rpc, rline, last_line, lock, rc,
          done, tail, shown, sincePoll, slept, report, verify, result,
          calls, parsed, now, runs, logdir, wrap>>

\* state that only the function-level and two-run specifications use
standalone == <<calls, parsed, now, runs, logdir, wrap>>

mainLocals == <<manifest_rows, total, initial_done, rc, done, tail, shown, sincePoll, slept>>
readerVars == <<rpc, rline, last_line>>
childVars  == <<child, nOut, pipe, disk>>
inputs     == <<args, manifest, disk0, standalone>>

WrapIdle ==
    [pc |-> "none", stage |-> "none", dry_run |-> FALSE, inputs_ok |-> FALSE,
     cfg |-> [verify_after |-> FALSE, fail_on_verify |-> FALSE],
     cmd |-> <<>>, files |-> {}, starts |-> <<>>,
     result |-> [kind |-> "none", value |-> <<>>]]

StandaloneIdle ==
    /\ wrap = WrapIdle
    /\ calls = <<>>
    /\ parsed = <<>>
    /\ now = 0
    /\ runs = [r \in {1, 2} |-> [pc |-> "start", log_file |-> <<>>]]
    /\ logdir = <<>>

InitRun(argset, manifests) ==
    /\ args \in argset
    /\ manifest \in manifests
    /\ disk \in Disks(PathsOf(manifest), RunContents)
    /\ disk0 = disk
    /\ dirs = {}
    /\ pc = "start"
    /\ manifest_rows = <<>>
    /\ total = 0
    /\ log = [exists |-> FALSE, open |-> FALSE, lines |-> <<>>]
    /\ initial_done = 0
    /\ child = [state |-> "none", code |-> 0]
    /\ nOut = 0
    /\ pipe = <<>>
    /\ rpc = "none"
    /\ rline = <<>>
    /\ last_line = <<>>
    /\ lock = "free"
    /\ rc = <<>>
    /\ done = <<>>
    /\ tail = <<>>
    /\ shown = <<>>
    /\ sincePoll = <<>>
    /\ slept = <<>>
    /\ report = [exists |-> FALSE, rows |-> <<>>]
    /\ verify = [runs |-> 0, ok |-> 0, missing |-> 0, empty |-> 0]
    /\ result = [kind |-> "none", value |-> <<>>]
    /\ StandaloneIdle

InitOn(manifests) == InitRun(RunArgs, manifests)

Init == InitOn(RunManifests(MaxRunRows))

InitFiles == InitOn(RunManifests(MaxRows))

\* exit statuses of the transfer client
ChildCodes == {0, 1, 2}

Returned(code) == [kind |-> "returned", value |-> <<code>>]
Raised(exc)    == [kind |-> "raised", value |-> <<exc>>]

\* -------------------------------------------------------------- main thread
\* out_dir.mkdir / log_dir.mkdir
Mkdirs ==
    /\ pc = "start"
    /\ dirs' = {"out_dir", "log_dir"}
    /\ pc' = "read_manifest"
    /\ UNCHANGED <<inputs, childVars, readerVars, mainLocals, log, lock, report, verify, result>>

\* main() without the total == 0 test
LoadManifest_NoZeroCheck ==
    /\ pc = "read_manifest"
    /\ LET r == ReadManifest(manifest)
       IN  IF r.err # ""
           THEN /\ result' = Raised(r.err)
                /\ pc' = "done"
                /\ UNCHANGED <<manifest_rows, total>>
           ELSE /\ manifest_rows' = r.rows
                /\ total' = Len(r.rows)
                /\ pc' = "open_log"
                /\ UNCHANGED result
    /\ UNCHANGED <<inputs, childVars, readerVars, dirs, log, lock, report, verify,
                   initial_done, rc, done, tail, shown, sincePoll, slept>>

\* main() testing the data lines of the file, not the rows, for zero
LoadManifest_ZeroLinesCheck ==
    /\ pc = "read_manifest"
    /\ LET r == ReadManifest(manifest)
       IN  IF r.err # ""
           THEN /\ result' = Raised(r.err)
                /\ pc' = "done"
                /\ UNCHANGED <<manifest_rows, total>>
           ELSE IF Len(manifest.lines) <= 1
           THEN /\ result' = Raised("SystemExit")
                /\ pc' = "done"
                /\ UNCHANGED <<manifest_rows, total>>
           ELSE /\ manifest_rows' = r.rows
                /\ total' = Len(r.rows)
                /\ pc' = "open_log"
                /\ UNCHANGED result
    /\ UNCHANGED <<inputs, childVars, readerVars, dirs, log, lock, report, verify,
                   initial_done, rc, done, tail, shown, sincePoll, slept>>

\* manifest_rows = _read_manifest(manifest); total == 0 is fatal
LoadManifest ==
    /\ pc = "read_manifest"
    /\ LET r == ReadManifest(manifest)
       IN  IF r.err # ""
           THEN /\ result' = Raised(r.err)
                /\ pc' = "done"
                /\ UNCHANGED <<manifest_rows, total>>
           ELSE IF Len(r.rows) = 0
           THEN /\ result' = Raised("SystemExit")
                /\ pc' = "done"
                /\ UNCHANGED <<manifest_rows, total>>
           ELSE /\ manifest_rows' = r.rows
                /\ total' = Len(r.rows)
                /\ pc' = "open_log"
                /\ UNCHANGED result
    /\ UNCHANGED <<inputs, childVars, readerVars, dirs, log, lock, report, verify,
                   initial_done, rc, done, tail, shown, sincePoll, slept>>

\* with log_file.open("w") as lf: the parameter block, flushed
OpenLog ==
    /\ pc = "open_log"
    /\ log' = [exists |-> TRUE, open |-> TRUE, lines |-> HeaderBlock(args, manifest)]
    /\ pc' = "count_initial"
    /\ UNCHANGED <<inputs, childVars, readerVars, mainLocals, dirs, lock, report, verify, result>>

\* initial_done = _count_completed(manifest_rows, out_dir)
CountInitial ==
    /\ pc = "count_initial"
    /\ initial_done' = CountCompleted(manifest_rows, disk)
    /\ pc' = "popen"
    /\ UNCHANGED <<inputs, childVars, readerVars, dirs, log, lock, report, verify, result,
                   manifest_rows, total, rc, done, tail, shown, sincePoll, slept>>

\* subprocess.Popen succeeds
PopenOk ==
    /\ pc = "popen"
    /\ child' = [state |-> "running", code |-> 0]
    /\ pc' = "start_thread"
    /\ UNCHANGED <<inputs, nOut, pipe, disk, readerVars, mainLocals, dirs, log, lock,
                   report, verify, result>>

\* a spawn failure caught and turned into exit code 1
PopenFail_Caught ==
    /\ pc = "popen"
    /\ log' = [log EXCEPT !.open = FALSE]
    /\ result' = Returned(1)
    /\ pc' = "done"
    /\ UNCHANGED <<inputs, childVars, readerVars, mainLocals, dirs, lock, report, verify>>

\* a spawn failure that is noted in the log before it leaves main()
PopenFail_LogsError ==
    /\ pc = "popen"
    /\ log' = [log EXCEPT !.open = FALSE,
                          !.lines = @ \o <<[kind |-> "BLANK", text |-> <<>>],
                                           [kind |-> "ERROR", text |-> <<"FileNotFoundError">>]>>]
    /\ result' = Raised("FileNotFoundError")
    /\ pc' = "done"
    /\ UNCHANGED <<inputs, childVars, readerVars, mainLocals, dirs, lock, report, verify>>

\* subprocess.Popen raises: the with block closes lf, the exception leaves main()
PopenFail ==
    /\ pc = "popen"
    /\ log' = [log EXCEPT !.open = FALSE]
    /\ result' = Raised("FileNotFoundError")
    /\ pc' = "done"
    /\ UNCHANGED <<inputs, childVars, readerVars, mainLocals, dirs, lock, report, verify>>

\* t = Thread(target=reader_thread, daemon=True); t.start()
StartThread ==
    /\ pc = "start_thread"
    /\ rpc' = "read"
    /\ pc' = "poll"
    /\ UNCHANGED <<inputs, childVars, rline, last_line, mainLocals, dirs, log, lock,
                   report, verify, result>>

\* a loop that breaks as soon as poll() returns a status
Poll_BreakFirst ==
    /\ pc = "poll"
    /\ rc' = IF child.state = "exited" THEN <<child.code>> ELSE <<>>
    /\ sincePoll' = <<>>
    /\ slept' = <<>>
    /\ pc' = IF child.state = "exited" THEN "join" ELSE "count"
    /\ UNCHANGED <<inputs, childVars, readerVars, dirs, log, lock, report, verify, result,
                   manifest_rows, total, initial_done, done, tail, shown>>

\* rc = proc.poll()
Poll ==
    /\ pc = "poll"
    /\ rc' = IF child.state = "exited" THEN <<child.code>> ELSE <<>>
    /\ sincePoll' = <<>>
    /\ slept' = <<>>
    /\ pc' = "count"
    /\ UNCHANGED <<inputs, childVars, readerVars, dirs, log, lock, report, verify, result,
                   manifest_rows, total, initial_done, done, tail, shown>>

\* done = _count_completed(manifest_rows, out_dir)
Count ==
    /\ pc = "count"
    /\ done' = <<CountCompleted(manifest_rows, disk)>>
    /\ sincePoll' = Append(sincePoll, "count")
    /\ pc' = "lock"
    /\ UNCHANGED slept
    /\ UNCHANGED <<inputs, childVars, readerVars, dirs, log, lock, report, verify, result,
                   manifest_rows, total, initial_done, rc, tail, shown>>

\* a foreground loop that enters without taking the lock
MainAcquire_NoLock ==
    /\ pc = "lock"
    /\ pc' = "tail"
    /\ UNCHANGED <<inputs, childVars, readerVars, mainLocals, dirs, log, lock, report, verify, result>>

\* with last_line_lock: entered
MainAcquire ==
    /\ pc = "lock"
    /\ lock = "free"
    /\ lock' = "main"
    /\ pc' = "tail"
    /\ UNCHANGED <<inputs, childVars, readerVars, mainLocals, dirs, log, report, verify, result>>

\* tail = last_line["text"], and the lock is released
MainReadTail ==
    /\ pc = "tail"
    /\ tail' = last_line
    /\ lock' = "free"
    /\ pc' = "render"
    /\ UNCHANGED <<inputs, childVars, readerVars, dirs, log, report, verify, result,
                   manifest_rows, total, initial_done, rc, done, shown, sincePoll, slept>>

\* the progress line is written; the loop breaks if rc is not None
Render ==
    /\ pc = "render"
    /\ shown' = <<ProgressLine(done[1], total, initial_done, tail)>>
    /\ sincePoll' = Append(sincePoll, "render")
    /\ UNCHANGED slept
    /\ pc' = IF rc # <<>> THEN "join" ELSE "sleep"
    /\ UNCHANGED <<inputs, childVars, readerVars, dirs, log, lock, report, verify, result,
                   manifest_rows, total, initial_done, rc, done, tail>>

\* a sleep of the configured interval as it is
SleepSeconds_NoClamp(progress_every) == progress_every

\* max(1, args.progress_every)
SleepSeconds(progress_every) == IF progress_every > 1 THEN progress_every ELSE 1

\* time.sleep(max(1, args.progress_every)) returns
Sleep ==
    /\ pc = "sleep"
    /\ sincePoll' = Append(sincePoll, "sleep")
    /\ slept' = <<SleepSeconds(args.progress_every)>>
    /\ pc' = "poll"
    /\ UNCHANGED <<inputs, childVars, readerVars, dirs, log, lock, report, verify, result,
                   manifest_rows, total, initial_done, rc, done, tail, shown>>

ReaderFinished == rpc \in {"done", "crashed"}

\* t.join(timeout=5) returns because the thread ended
JoinReturn ==
    /\ pc = "join"
    /\ ReaderFinished
    /\ pc' = "check_rc"
    /\ UNCHANGED <<inputs, childVars, readerVars, mainLocals, dirs, log, lock, report, verify, result>>

\* t.join(timeout=5) returns because the 5 seconds passed
JoinTimeout ==
    /\ pc = "join"
    /\ ~ReaderFinished
    /\ pc' = "check_rc"
    /\ UNCHANGED <<inputs, childVars, readerVars, mainLocals, dirs, log, lock, report, verify, result>>

\* proc.returncode != 0: the [ERROR] line is written and flushed
WriteError ==
    /\ pc = "check_rc"
    /\ rc[1] # 0
    /\ log' = [log EXCEPT !.lines = @ \o <<[kind |-> "BLANK", text |-> <<>>],
                                           [kind |-> "ERROR", text |-> rc]>>]
    /\ pc' = "return_rc"
    /\ UNCHANGED <<inputs, childVars, readerVars, mainLocals, dirs, lock, report, verify, result>>

\* a child failure reported as exit code 1
ReturnRc_Flat ==
    /\ pc = "return_rc"
    /\ log' = [log EXCEPT !.open = FALSE]
    /\ result' = Returned(1)
    /\ pc' = "done"
    /\ UNCHANGED <<inputs, childVars, readerVars, mainLocals, dirs, lock, report, verify>>

\* a failed transfer that is started again
ReturnRc_Retry ==
    /\ pc = "return_rc"
    /\ pc' = "popen"
    /\ UNCHANGED <<inputs, childVars, readerVars, mainLocals, dirs, log, lock, report, verify, result>>

\* return int(proc.returncode), leaving the with block
ReturnRc ==
    /\ pc = "return_rc"
    /\ log' = [log EXCEPT !.open = FALSE]
    /\ result' = Returned(rc[1])
    /\ pc' = "done"
    /\ UNCHANGED <<inputs, childVars, readerVars, mainLocals, dirs, lock, report, verify>>

\* a with block that leaves lf open
CloseLog_LeavesOpen ==
    /\ pc = "check_rc"
    /\ rc[1] = 0
    /\ pc' = "after_with"
    /\ UNCHANGED <<inputs, childVars, readerVars, mainLocals, dirs, log, lock, report, verify, result>>

\* proc.returncode == 0: the with block ends and closes lf
CloseLog ==
    /\ pc = "check_rc"
    /\ rc[1] = 0
    /\ log' = [log EXCEPT !.open = FALSE]
    /\ pc' = "after_with"
    /\ UNCHANGED <<inputs, childVars, readerVars, mainLocals, dirs, lock, report, verify, result>>

\* a verifier pass that counts but writes no report
Verify_NoReport ==
    /\ pc = "after_with"
    /\ args.verify_after
    /\ LET v == VerifyDownload(manifest_rows, disk)
       IN  verify' = [runs |-> verify.runs + 1, ok |-> v.ok,
                      missing |-> v.missing, empty |-> v.empty]
    /\ pc' = "append_log"
    /\ UNCHANGED <<inputs, childVars, readerVars, mainLocals, dirs, log, lock, report, result>>

\* args.verify_after: _verify_download writes the report
Verify ==
    /\ pc = "after_with"
    /\ args.verify_after
    /\ LET v == VerifyDownload(manifest_rows, disk)
       IN  /\ report' = [exists |-> TRUE, rows |-> v.report]
           /\ verify' = [runs |-> verify.runs + 1, ok |-> v.ok,
                         missing |-> v.missing, empty |-> v.empty]
    /\ pc' = "append_log"
    /\ UNCHANGED <<inputs, childVars, readerVars, mainLocals, dirs, log, lock, result>>

\* with log_file.open("a"): the [VERIFY] block; print(summary)
AppendVerify ==
    /\ pc = "append_log"
    /\ log' = [log EXCEPT !.exists = TRUE,
                          !.lines = @ \o <<[kind |-> "BLANK", text |-> <<>>],
                                           [kind |-> "VERIFY", text |-> <<verify.ok, verify.missing, verify.empty>>],
                                           [kind |-> "VERIFY_REPORT", text |-> <<"report">>]>>]
    /\ pc' = "verify_result"
    /\ UNCHANGED <<inputs, childVars, readerVars, mainLocals, dirs, lock, report, verify, result>>

\* an exit code that ignores empty files
VerifyExit_MissingOnly(v, a) ==
    IF v.missing > 0 /\ a.fail_on_verify THEN VerifyFailCode ELSE 0

\* the exit code main() returns after a verifier pass
VerifyExit(v, a) ==
    IF (v.missing > 0 \/ v.empty > 0) /\ a.fail_on_verify THEN VerifyFailCode ELSE 0

\* if (missing > 0 or empty > 0) and args.fail_on_verify: return 2, else return 0
VerifyResult ==
    /\ pc = "verify_result"
    /\ result' = Returned(VerifyExit(verify, args))
    /\ pc' = "done"
    /\ UNCHANGED <<inputs, childVars, readerVars, mainLocals, dirs, log, lock, report, verify>>

\* not args.verify_after: return 0
ReturnZero ==
    /\ pc = "after_with"
    /\ ~args.verify_after
    /\ result' = Returned(0)
    /\ pc' = "done"
    /\ UNCHANGED <<inputs, childVars, readerVars, mainLocals, dirs, log, lock, report, verify>>

\* ------------------------------------------------------------ reader thread
\* for line in proc.stdout: the next line, or the end of the stream
ReaderRead ==
    /\ rpc = "read"
    /\ IF pipe # <<>>
       THEN /\ rline' = Head(pipe)
            /\ pipe' = Tail(pipe)
            /\ rpc' = "write"
       ELSE /\ child.state = "exited"
            /\ rpc' = "done"
            /\ UNCHANGED <<rline, pipe>>
    /\ UNCHANGED <<inputs, child, nOut, disk, last_line, mainLocals, dirs, pc, log, lock,
                   report, verify, result>>

\* a reader that swallows the error of a closed log and goes on
ReaderWrite_IgnoreClosed ==
    /\ rpc = "write"
    /\ IF log.open
       THEN log' = [log EXCEPT !.lines = Append(@, [kind |-> "CHILD", text |-> rline])]
       ELSE UNCHANGED log
    /\ rpc' = "lock"
    /\ UNCHANGED <<inputs, childVars, rline, last_line, mainLocals, dirs, pc, lock,
                   report, verify, result>>

\* lf.write(line); lf.flush() -- ValueError ends the thread if lf is closed
ReaderWrite ==
    /\ rpc = "write"
    /\ IF log.open
       THEN /\ log' = [log EXCEPT !.lines = Append(@, [kind |-> "CHILD", text |-> rline])]
            /\ rpc' = "lock"
       ELSE /\ rpc' = "crashed"
            /\ UNCHANGED log
    /\ UNCHANGED <<inputs, childVars, rline, last_line, mainLocals, dirs, pc, lock,
                   report, verify, result>>

\* with last_line_lock: entered
ReaderAcquire ==
    /\ rpc = "lock"
    /\ lock = "free"
    /\ lock' = "reader"
    /\ rpc' = "set"
    /\ UNCHANGED <<inputs, childVars, rline, last_line, mainLocals, dirs, pc, log,
                   report, verify, result>>

\* last_line["text"] = line.strip(), and the lock is released
ReaderSet ==
    /\ rpc = "set"
    /\ last_line' = Strip(rline)
    /\ lock' = "free"
    /\ rpc' = "read"
    /\ UNCHANGED <<inputs, childVars, rline, mainLocals, dirs, pc, log, report, verify, result>>

\* -------------------------------------------------- the transfer client
\* the client writes a line to its stdout/stderr
ChildWrite ==
    /\ child.state = "running"
    /\ nOut < MaxLines
    /\ nOut' = nOut + 1
    /\ pipe' = Append(pipe, ChildLine(nOut + 1))
    /\ UNCHANGED <<inputs, child, disk, readerVars, mainLocals, dirs, pc, log, lock,
                   report, verify, result>>

\* the client stores a file of the manifest under <out_dir>/<id>/<filename>
ChildCreate ==
    /\ child.state = "running"
    /\ \E p \in PathsOf(manifest) \ DOMAIN disk, content \in RunContents :
           disk' = [q \in DOMAIN disk \cup {p} |-> IF q = p THEN content ELSE disk[q]]
    /\ UNCHANGED <<inputs, child, nOut, pipe, readerVars, mainLocals, dirs, pc, log, lock,
                   report, verify, result>>

\* the client exits
ChildExit ==
    /\ child.state = "running"
    /\ \E c \in ChildCodes : child' = [state |-> "exited", code |-> c]
    /\ UNCHANGED <<inputs, nOut, pipe, disk, readerVars, mainLocals, dirs, pc, log, lock,
                   report, verify, result>>

MainNext ==
    \/ Mkdirs \/ LoadManifest \/ OpenLog \/ CountInitial \/ PopenOk \/ PopenFail
    \/ StartThread \/ Poll \/ Count \/ MainAcquire \/ MainReadTail \/ Render \/ Sleep
    \/ JoinReturn \/ JoinTimeout \/ WriteError \/ ReturnRc \/ CloseLog
    \/ Verify \/ AppendVerify \/ VerifyResult \/ ReturnZero

ReaderNext == ReaderRead \/ ReaderWrite \/ ReaderAcquire \/ ReaderSet

ChildNext == ChildWrite \/ ChildCreate \/ ChildExit

Next == MainNext \/ ReaderNext \/ ChildNext

Spec == Init /\ [][Next]_vars

\* runs of a client that writes nothing to its output stream
NextFiles == MainNext \/ ReaderRead \/ ChildCreate \/ ChildExit

SpecFiles == InitFiles /\ [][NextFiles]_vars

\* runs on a one-row manifest
InitFair == InitOn({[readable |-> TRUE, lines |-> <<HeaderLine, RowLine(1)>>]})

\* runs on a one-row manifest with every --progress_every
InitLoop == InitRun(LoopArgs, {[readable |-> TRUE, lines |-> <<HeaderLine, RowLine(1)>>]})

SpecLoop == InitLoop /\ [][Next]_vars

\* the scheduler runs every thread that can take a step, and a sleep ends
FairSpec == InitFair /\ [][Next]_vars /\ WF_vars(MainNext) /\ WF_vars(ReaderNext)

\* ------------------------------------- the verifier and the counter alone
\* _verify_download and _count_completed called on their own, as an audit of
\* an output tree that is not being written by a run of main().

\* everything of a run of main() that such a call leaves alone
runState == <<args, manifest, disk0, pc, total, log, initial_done, child, nOut, pipe,
              rpc, rline, last_line, lock, rc, done, tail, shown, sincePoll, slept, result>>

RunIdle ==
    /\ args = [verify_after |-> FALSE, fail_on_verify |-> FALSE, token_file |-> <<>>,
               progress_every |-> DefaultProgressEvery]
    /\ disk0 = <<>>
    /\ dirs = {}
    /\ pc = "none"
    /\ total = 0
    /\ log = [exists |-> FALSE, open |-> FALSE, lines |-> <<>>]
    /\ initial_done = 0
    /\ child = [state |-> "none", code |-> 0]
    /\ nOut = 0
    /\ pipe = <<>>
    /\ rpc = "none"
    /\ rline = <<>>
    /\ last_line = <<>>
    /\ lock = "free"
    /\ rc = <<>>
    /\ done = <<>>
    /\ tail = <<>>
    /\ shown = <<>>
    /\ sincePoll = <<>>
    /\ slept = <<>>
    /\ result = [kind |-> "none", value |-> <<>>]

Row(i, j) == [id |-> <<IdNames[i]>>, filename |-> <<FileNames[j]>>]

\* rows of two ids; the first id has two files
AuditRowSet == {Row(1, 1), Row(2, 2), Row(1, 2)}

AuditPaths == {ExpectedPath(OutDir, r.id, r.filename) : r \in AuditRowSet}

\* what others may leave in a file: nothing, or one of two texts of one size
AuditContents == {<<>>, <<"x">>, <<"y">>}

SeqsUpTo(S, n) == UNION { [1..k -> S] : k \in 0..n }

InitAudit ==
    /\ manifest = [readable |-> TRUE, lines |-> <<>>]
    /\ manifest_rows \in SeqsUpTo(AuditRowSet, MaxAuditRows)
    /\ disk \in Disks({ExpectedPath(OutDir, manifest_rows[i].id, manifest_rows[i].filename) :
                          i \in 1..Len(manifest_rows)}, RunContents)
    /\ report = [exists |-> FALSE, rows |-> <<>>]
    /\ verify = [runs |-> 0, ok |-> 0, missing |-> 0, empty |-> 0]
    /\ RunIdle
    /\ StandaloneIdle

Touches == Cardinality({i \in 1..Len(calls) : calls[i].op = "touch"})

CallsMade == Len(calls) - Touches

\* a verifier pass that opens the report for appending
AuditVerify_Append ==
    /\ CallsMade < MaxCalls
    /\ LET v == VerifyDownload(manifest_rows, disk)
           written == report.rows \o v.report
       IN  /\ report' = [exists |-> TRUE, rows |-> written]
           /\ verify' = [runs |-> verify.runs + 1, ok |-> v.ok,
                         missing |-> v.missing, empty |-> v.empty]
           /\ calls' = Append(calls, [op |-> "verify", disk |-> disk,
                                      ret |-> <<v.ok, v.missing, v.empty>>,
                                      report |-> written])
    /\ dirs' = dirs \cup {"log_dir"}
    /\ UNCHANGED <<runState, manifest_rows, disk, parsed, now, runs, logdir, wrap>>

\* ok, missing, empty = _verify_download(rows, out_dir, report): the parent of
\* the report is created if need be, the report is opened with "w"
AuditVerify ==
    /\ CallsMade < MaxCalls
    /\ LET v == VerifyDownload(manifest_rows, disk)
       IN  /\ report' = [exists |-> TRUE, rows |-> v.report]
           /\ verify' = [runs |-> verify.runs + 1, ok |-> v.ok,
                         missing |-> v.missing, empty |-> v.empty]
           /\ calls' = Append(calls, [op |-> "verify", disk |-> disk,
                                      ret |-> <<v.ok, v.missing, v.empty>>,
                                      report |-> v.report])
    /\ dirs' = dirs \cup {"log_dir"}
    /\ UNCHANGED <<runState, manifest_rows, disk, parsed, now, runs, logdir, wrap>>

LastCount ==
    LET cs == SelectSeq(calls, LAMBDA c : c.op = "count")
    IN  IF cs = <<>> THEN 0 ELSE cs[Len(cs)].ret[1]

\* a counter whose accumulator outlives the call
AuditCount_Accumulate ==
    /\ CallsMade < MaxCalls
    /\ calls' = Append(calls, [op |-> "count", disk |-> disk,
                               ret |-> <<LastCount + CountCompleted(manifest_rows, disk)>>,
                               report |-> report.rows])
    /\ UNCHANGED <<runState, manifest_rows, disk, dirs, report, verify, parsed, now, runs, logdir, wrap>>

\* done = _count_completed(rows, out_dir)
AuditCount ==
    /\ CallsMade < MaxCalls
    /\ calls' = Append(calls, [op |-> "count", disk |-> disk,
                               ret |-> <<CountCompleted(manifest_rows, disk)>>,
                               report |-> report.rows])
    /\ UNCHANGED <<runState, manifest_rows, disk, dirs, report, verify, parsed, now, runs, logdir, wrap>>

\* between two calls someone else stores, rewrites or removes an expected file
OutsideTouch ==
    /\ Touches < MaxTouches
    /\ calls # <<>>
    /\ CallsMade < MaxCalls
    /\ \E p \in {ExpectedPath(OutDir, manifest_rows[i].id, manifest_rows[i].filename) :
                     i \in 1..Len(manifest_rows)} :
          \/ /\ p \in DOMAIN disk
             /\ disk' = [q \in DOMAIN disk \ {p} |-> disk[q]]
          \/ \E content \in AuditContents :
                /\ (p \in DOMAIN disk => disk[p] # content)
                /\ disk' = [q \in DOMAIN disk \cup {p} |-> IF q = p THEN content ELSE disk[q]]
    /\ calls' = Append(calls, [op |-> "touch", disk |-> disk, ret |-> <<>>, report |-> report.rows])
    /\ UNCHANGED <<runState, manifest_rows, dirs, report, verify, parsed, now, runs, logdir, wrap>>

NextAudit == AuditVerify \/ AuditCount \/ OutsideTouch

SpecAudit == InitAudit /\ [][NextAudit]_vars

\* --------------------------------------------------- the parser alone
\* _read_manifest called on a manifest file that an editor may trim between
\* calls.

\* first lines a manifest file may have
ParseHeaders ==
    { HeaderLine,
      <<"id", TAB, "filename">>,
      <<"id", TAB, "filename", TAB, "md5", NL>>,
      <<"filename", TAB, "id", NL>>,
      <<"id", NL>>,
      <<"id", TAB, "file", NL>>,
      <<TAB, "id", TAB, "filename", NL>>,
      <<"id", TAB, TAB, "filename", NL>>,
      <<NL>> }

\* data lines: two rows, a line of one field, a blank line, a line of three
\* fields, a line whose id is empty, a line whose filename is empty
ParseLineKinds ==
    { RowLine(1), RowLine(2), BadLine, <<NL>>,
      <<IdNames[3], TAB, FileNames[3], TAB, "md5", NL>>,
      <<TAB, FileNames[1], NL>>,
      <<IdNames[1], TAB, NL>> }

ParseManifests ==
    { [readable |-> TRUE, lines |-> <<>>] }
    \cup { [readable |-> TRUE, lines |-> <<h>> \o ls] :
              h \in ParseHeaders, ls \in SeqsUpTo(ParseLineKinds, MaxParseLines) }

InitParse ==
    /\ manifest \in ParseManifests
    /\ manifest_rows = <<>>
    /\ disk = <<>>
    /\ report = [exists |-> FALSE, rows |-> <<>>]
    /\ verify = [runs |-> 0, ok |-> 0, missing |-> 0, empty |-> 0]
    /\ RunIdle
    /\ StandaloneIdle

parseFrame == <<args, disk0, pc, total, log, initial_done, child, nOut, pipe, rpc, rline,
                last_line, lock, rc, done, tail, shown, sincePoll, slept, result,
                disk, dirs, report, verify, calls, now, runs, logdir, wrap>>

\* rows = _read_manifest(manifest)
ParseManifest ==
    /\ Len(parsed) < MaxParses
    /\ LET r == ReadManifest(manifest)
       IN  /\ parsed' = Append(parsed, [lines |-> manifest.lines, res |-> r])
           /\ manifest_rows' = r.rows
    /\ UNCHANGED <<manifest, parseFrame>>

RemoveAt(s, k) == SubSeq(s, 1, k - 1) \o SubSeq(s, k + 1, Len(s))

\* somebody deletes a data line that has no separator from the manifest file
RemoveMalformed ==
    /\ parsed # <<>> /\ Len(parsed) < MaxParses
    /\ \E k \in 2..Len(manifest.lines) :
          /\ \A i \in 1..Len(manifest.lines[k]) : manifest.lines[k][i] # TAB
          /\ manifest' = [manifest EXCEPT !.lines = RemoveAt(manifest.lines, k)]
    /\ UNCHANGED <<manifest_rows, parsed, parseFrame>>

NextParse == ParseManifest \/ RemoveMalformed

SpecParse == InitParse /\ [][NextParse]_vars

\* ------------------------------------------- two runs, one log directory
\* Two invocations of main() with the same --log-dir, each reduced to what it
\* does to run logs: it names its log from the clock, opens it with "w" and
\* writes the parameter block, its reader thread writes child lines, it
\* closes the log, and appends the verification summary or returns.
Invocations == {1, 2}

\* _ts(): the time to the second
Ts(t) == t \div TicksPerSecond

LogName(t) == <<"gdc_download_", Ts(t), ".log">>

twoFrame == <<args, manifest, disk0, pc, total, log, initial_done, child, nOut, pipe, rpc,
              rline, last_line, lock, rc, done, tail, shown, sincePoll, slept, result,
              manifest_rows, disk, dirs, report, verify, calls, parsed, wrap>>

InitTwo ==
    /\ manifest = [readable |-> TRUE, lines |-> <<HeaderLine, RowLine(1)>>]
    /\ manifest_rows = <<>>
    /\ disk = <<>>
    /\ report = [exists |-> FALSE, rows |-> <<>>]
    /\ verify = [runs |-> 0, ok |-> 0, missing |-> 0, empty |-> 0]
    /\ RunIdle
    /\ StandaloneIdle

Tick ==
    /\ now < MaxNow
    /\ now' = now + 1
    /\ UNCHANGED <<runs, logdir, twoFrame>>

Written(f, r, kind) == [f EXCEPT !.lines = Append(@, [by |-> r, kind |-> kind])]

\* log_file = log_dir / f"gdc_download_{_ts()}.log"
NameLog(r) ==
    /\ runs[r].pc = "start"
    /\ runs' = [runs EXCEPT ![r] = [pc |-> "named", log_file |-> LogName(now)]]
    /\ UNCHANGED <<now, logdir, twoFrame>>

\* with log_file.open("w") as lf: the file is created or truncated and the
\* parameter block written
OpenLogW(r) ==
    /\ runs[r].pc = "named"
    /\ LET name == runs[r].log_file
           old  == IF name \in DOMAIN logdir THEN logdir[name].openers ELSE {}
           cut  == IF name \in DOMAIN logdir
                   THEN logdir[name].lost \cup
                        {logdir[name].lines[i].by : i \in 1..Len(logdir[name].lines)}
                   ELSE {}
       IN  logdir' = [n \in DOMAIN logdir \cup {name} |->
                        IF n = name
                        THEN [openers |-> old \cup {r}, lost |-> cut \ {r},
                              lines |-> <<[by |-> r, kind |-> "CMD"]>>]
                        ELSE logdir[n]]
    /\ runs' = [runs EXCEPT ![r].pc = "running"]
    /\ UNCHANGED <<now, twoFrame>>

\* reader_thread: lf.write(line)
WriteChildLine(r) ==
    /\ runs[r].pc = "running"
    /\ logdir' = [logdir EXCEPT ![runs[r].log_file] = Written(@, r, "CHILD")]
    /\ runs' = [runs EXCEPT ![r].pc = "written"]
    /\ UNCHANGED <<now, twoFrame>>

\* the with block is left
CloseLogW(r) ==
    /\ runs[r].pc \in {"running", "written"}
    /\ runs' = [runs EXCEPT ![r].pc = "closed"]
    /\ UNCHANGED <<now, logdir, twoFrame>>

\* with log_file.open("a") as lf: lf.write("\n" + summary)
AppendSummary(r) ==
    /\ runs[r].pc = "closed"
    /\ logdir' = [logdir EXCEPT ![runs[r].log_file] =
                     [Written(@, r, "VERIFY") EXCEPT !.openers = @ \cup {r}]]
    /\ runs' = [runs EXCEPT ![r].pc = "done"]
    /\ UNCHANGED <<now, twoFrame>>

\* return without verification
ReturnPlain(r) ==
    /\ runs[r].pc = "closed"
    /\ runs' = [runs EXCEPT ![r].pc = "done"]
    /\ UNCHANGED <<now, logdir, twoFrame>>

NextTwo ==
    \/ Tick
    \/ \E r \in Invocations :
          \/ NameLog(r)
          \/ OpenLogW(r)
          \/ WriteChildLine(r)
          \/ CloseLogW(r)
          \/ AppendSummary(r)
          \/ ReturnPlain(r)

SpecTwo == InitTwo /\ [][NextTwo]_vars

\* ------------------------------------------------- the excerpt alone
\* Lines 128-129 and 162-169 on lines of many kinds: the reader stores the
\* stripped line, the loop takes it and renders the progress line.
TailWords ==
    { <<>>,
      <<"o","k">>,
      <<"t","r","a","n","s","f","e","r">>,
      <<"T","r","a","n","s","f","e","r","r","e","d">>,
      <<"d","o","w","n","l","o","a","d">>,
      <<"D","o","w","n","l","o","a","d","i","n","g">>,
      <<"E","R","R","O","R">>,
      <<"e","r","r","o">>,
      <<"R","e","t","r","y">>,
      <<"c","o","m","p","l","e","t","e">>,
      <<"S","a","v","e","d">>,
      <<"s","k","i","p","p","i","n","g">> }

Filler(n) == [i \in 1..n |-> "x"]

TailFillers == {<<>>, <<" ">>, Filler(TailMax)}

\* lines of the child: a word between two fillers, and the line end
TailLines == {a \o w \o b \o <<"\n">> : a \in TailFillers, b \in TailFillers, w \in TailWords}

InitTail ==
    /\ manifest = [readable |-> TRUE, lines |-> <<HeaderLine, RowLine(1)>>]
    /\ manifest_rows = <<>>
    /\ disk = <<>>
    /\ report = [exists |-> FALSE, rows |-> <<>>]
    /\ verify = [runs |-> 0, ok |-> 0, missing |-> 0, empty |-> 0]
    /\ RunIdle
    /\ StandaloneIdle

tailFrame == <<args, manifest, disk0, pc, total, log, initial_done, child, nOut, pipe, rpc,
               rline, lock, rc, done, sincePoll, slept, result,
               manifest_rows, disk, dirs, report, verify, standalone>>

\* last_line["text"] = line.strip()
TailSet ==
    /\ \E line \in TailLines : last_line' = Strip(line)
    /\ UNCHANGED <<tail, shown, tailFrame>>

\* tail = last_line["text"]; the progress line is written
TailRender ==
    /\ tail' = last_line
    /\ shown' = <<ProgressLine(0, 1, 0, last_line)>>
    /\ UNCHANGED <<last_line, tailFrame>>

NextTail == TailSet \/ TailRender

SpecTail == InitTail /\ [][NextTail]_vars

\* ------------------------------------------------- the stage wrappers
\* main() of run/brca/05_download_rnaseq.py and 12_download_wsi_subset.py:
\* they check their inputs, build the command line of the orchestrator,
\* stop there in a dry run, and otherwise write a runner log and run the
\* orchestrator as a process with subprocess.run(cmd, check=True).
Stages == {"05_download_rnaseq", "12_download_wsi_subset"}

wrapFrame == <<args, manifest, disk0, pc, total, log, initial_done, child, nOut, pipe, rpc,
               rline, last_line, lock, rc, done, tail, shown, sincePoll, slept, result,
               manifest_rows, disk, dirs, report, verify, calls, parsed, now, runs, logdir>>

InitWrap ==
    /\ manifest = [readable |-> TRUE, lines |-> <<HeaderLine, RowLine(1)>>]
    /\ manifest_rows = <<>>
    /\ disk = <<>>
    /\ report = [exists |-> FALSE, rows |-> <<>>]
    /\ verify = [runs |-> 0, ok |-> 0, missing |-> 0, empty |-> 0]
    /\ RunIdle
    /\ StandaloneIdle

\* how the orchestrator's main() can end when it is given these flags
OrchResults(cfg) ==
    {Returned(c) : c \in ChildCodes}
    \cup (IF cfg.verify_after
          THEN {Returned(VerifyExit([missing |-> 1, empty |-> 0], cfg))}
          ELSE {})
    \cup {Raised("SystemExit"), Raised("FileNotFoundError"), Raised("OSError")}

\* raise SystemExit(main()): the exit status of the orchestrator process
ExitStatus(r) == IF r.kind = "returned" THEN r.value[1] % 256 ELSE 1

\* args and cfg are read, the log directories are made
WrapStart ==
    /\ wrap.pc = "none"
    /\ \E st \in Stages, dry \in BOOLEAN, ok \in BOOLEAN,
          cfg \in [verify_after : BOOLEAN, fail_on_verify : BOOLEAN] :
          wrap' = [wrap EXCEPT !.pc = "check", !.stage = st, !.dry_run = dry,
                               !.inputs_ok = ok, !.cfg = cfg,
                               !.files = {"out_logs", "gdc_log_dir"}]
    /\ UNCHANGED wrapFrame

\* the input tables are missing or unusable: the wrapper raises; otherwise
\* stage 12 writes its selection table and the subset manifest
WrapCheckInputs ==
    /\ wrap.pc = "check"
    /\ IF ~wrap.inputs_ok
       THEN wrap' = [wrap EXCEPT !.pc = "done", !.result = Raised("FileNotFoundError")]
       ELSE wrap' = [wrap EXCEPT !.pc = "cmd",
                                 !.files = IF wrap.stage = "12_download_wsi_subset"
                                           THEN @ \cup {"selection", "subset_manifest"}
                                           ELSE @]
    /\ UNCHANGED wrapFrame

\* cmd = [sys.executable, "scripts/gdc/gdc_download.py", ...] and the flags
WrapBuildCmd ==
    /\ wrap.pc = "cmd"
    /\ wrap' = [wrap EXCEPT !.pc = "dry",
                            !.cmd = <<"python", "scripts/gdc/gdc_download.py", "--manifest",
                                      "--out_dir", "--log_dir", "--threads", "--gdc_client">>
                                    \o (IF wrap.cfg.verify_after THEN <<"--verify_after">> ELSE <<>>)
                                    \o (IF wrap.cfg.fail_on_verify THEN <<"--fail_on_verify">> ELSE <<>>)]
    /\ UNCHANGED wrapFrame

\* if args.dry_run: the preview is printed, return 0
WrapDryRun ==
    /\ wrap.pc = "dry"
    /\ wrap.dry_run
    /\ wrap' = [wrap EXCEPT !.pc = "done", !.result = Returned(0)]
    /\ UNCHANGED wrapFrame

\* out_dir.mkdir; the runner log is written
WrapRunnerLog ==
    /\ wrap.pc = "dry"
    /\ ~wrap.dry_run
    /\ wrap' = [wrap EXCEPT !.pc = "run", !.files = @ \cup {"out_dir", "runner_log"}]
    /\ UNCHANGED wrapFrame

HasFlag(cmd, flag) == \E i \in 1..Len(cmd) : cmd[i] = flag

\* a wrapper that reports every failure as 1
WrapRun_Flat ==
    /\ wrap.pc = "run"
    /\ \E r \in OrchResults([verify_after   |-> HasFlag(wrap.cmd, "--verify_after"),
                             fail_on_verify |-> HasFlag(wrap.cmd, "--fail_on_verify")]) :
          wrap' = [wrap EXCEPT !.pc = "done",
                               !.starts = Append(@, ExitStatus(r)),
                               !.result = IF ExitStatus(r) = 0 THEN Returned(0) ELSE Returned(1)]
    /\ UNCHANGED wrapFrame

\* subprocess.run(cmd, check=True): return 0, or e.returncode of
\* CalledProcessError
WrapRun ==
    /\ wrap.pc = "run"
    /\ \E r \in OrchResults([verify_after   |-> HasFlag(wrap.cmd, "--verify_after"),
                             fail_on_verify |-> HasFlag(wrap.cmd, "--fail_on_verify")]) :
          wrap' = [wrap EXCEPT !.pc = "done",
                               !.starts = Append(@, ExitStatus(r)),
                               !.result = IF ExitStatus(r) = 0 THEN Returned(0)
                                          ELSE Returned(ExitStatus(r))]
    /\ UNCHANGED wrapFrame

NextWrap ==
    WrapStart \/ WrapCheckInputs \/ WrapBuildCmd \/ WrapDryRun \/ WrapRunnerLog \/ WrapRun

SpecWrap == InitWrap /\ [][NextWrap]_vars

\* ============================================================== properties
\* what the child has written, and what of it the log holds
ChildOut == [i \in 1..nOut |-> ChildLine(i)]

KindLines(kind) == SelectSeq(log.lines, LAMBDA e : e.kind = kind)

ChildLinesLogged == [i \in 1..Len(KindLines("CHILD")) |-> KindLines("CHILD")[i].text]

HasKind(kind) == \E i \in 1..Len(log.lines) : log.lines[i].kind = kind

ChildRan == child.state # "none"

ChildFailed == child.state = "exited" /\ child.code # 0

\* the manifest is unreadable, has an invalid header or yields no row
ManifestBad(m) == ReadManifest(m).err # "" \/ Len(ReadManifest(m).rows) = 0

\* C1: when main() returns after spawning the child, the log holds every line
\* the child wrote, once each and in the order written.
C1_LogHoldsChildOutput ==
    (pc = "done" /\ result.kind = "returned" /\ ChildRan) => ChildLinesLogged = ChildOut

\* C2: a child that exits with c # 0 makes main() return exactly c, and on that
\* path the verifier never runs, no report is written and the log gets no
\* [VERIFY] block, whatever verify_after and fail_on_verify are.
C2_ChildFailurePropagates ==
    ChildFailed =>
        /\ verify.runs = 0
        /\ ~report.exists
        /\ ~HasKind("VERIFY") /\ ~HasKind("VERIFY_REPORT")
        /\ pc \notin {"after_with", "append_log", "verify_result"}
        /\ (pc = "done" => result = Returned(child.code))

C2_Witness ==
    /\ pc = "done" /\ ChildFailed /\ child.code = 2
    /\ args.verify_after /\ args.fail_on_verify
    /\ HasKind("ERROR")

\* the statuses of the expected files on the disk, counted from the disk itself
NumExisting(size) ==
    Cardinality({p \in PathsOf(manifest) : p \in DOMAIN disk /\ Len(disk[p]) = size})

NumAbsent == Cardinality(PathsOf(manifest) \ DOMAIN disk)

OneOfEach == NumExisting(1) = 1 /\ NumExisting(0) = 1 /\ NumAbsent = 1

\* C3: after a child exit 0 with verify_after the verifier has run exactly once,
\* after the exit; main() returns non-zero iff verification ran, found a missing
\* or empty file and fail_on_verify is set, and 0 otherwise; one OK, one empty
\* and one absent file with both flags give OK=1 MISSING=1 EMPTY=1 and failure.
C3_VerifyDecidesResult ==
    /\ verify.runs > 0 => (child.state = "exited" /\ child.code = 0 /\ args.verify_after)
    /\ (pc = "done" /\ child.state = "exited" /\ child.code = 0) =>
          /\ result.kind = "returned"
          /\ verify.runs = (IF args.verify_after THEN 1 ELSE 0)
          /\ report.exists = args.verify_after
          /\ (result.value[1] # 0) <=>
                (args.verify_after /\ args.fail_on_verify
                   /\ (NumAbsent > 0 \/ NumExisting(0) > 0))
          /\ (OneOfEach /\ args.verify_after /\ args.fail_on_verify) =>
                /\ verify.ok = 1 /\ verify.missing = 1 /\ verify.empty = 1
                /\ result.value[1] # 0

C3_Witness ==
    /\ pc = "done" /\ child.state = "exited" /\ child.code = 0
    /\ args.verify_after /\ args.fail_on_verify
    /\ Len(manifest_rows) = 3 /\ OneOfEach
    /\ disk0 = <<>>
    /\ result.kind = "returned" /\ result.value[1] # 0

\* C4: a run that ended on a child failure with code c # 0 never has the result
\* of a run that failed verification.
C4_VerifyCodeDistinct ==
    (pc = "done" /\ ChildFailed) =>
        result # Returned(VerifyExit([missing |-> 1, empty |-> 0], [fail_on_verify |-> TRUE]))

\* the run ended without a child although the manifest was accepted
LaunchFailed == pc = "done" /\ ~ManifestBad(manifest) /\ ~ChildRan

\* C5: a child that cannot be spawned ends the run in LaunchFailed: main()
\* raises, nothing of the Running state has happened (no reader thread, no
\* poll, no count, the log holds the parameter block only) and no step
\* follows; every run whose child ran ends by returning a code, so no exit
\* code of the child gives the result of a launch failure.
C5_LaunchFailureDistinct ==
    /\ LaunchFailed =>
          /\ result.kind = "raised"
          /\ \A c \in ChildCodes : result # Returned(c)
          /\ rpc = "none" /\ rc = <<>> /\ done = <<>> /\ shown = <<>>
          /\ log.lines = HeaderBlock(args, manifest)
          /\ ~ENABLED Next
    /\ (pc = "done" /\ ChildRan) =>
          (child.state = "exited" /\ result.kind = "returned" /\ rc # <<>>)

C5_Witness == LaunchFailed /\ result = Raised("FileNotFoundError") /\ log.exists

\* C6: on an unreadable manifest, an invalid header or zero parsed rows main()
\* raises before any child is spawned; it creates the two directories and
\* nothing else: no log file, no report, no reader thread, no child.
C6_ConfigErrorBeforeSpawn ==
    ManifestBad(manifest) =>
        /\ ~log.exists /\ ~log.open /\ log.lines = <<>>
        /\ ~report.exists
        /\ rpc = "none"
        /\ ~ChildRan
        /\ disk = disk0
        /\ pc \in {"start", "read_manifest", "done"}
        /\ (pc = "done" => (result.kind = "raised" /\ dirs = {"out_dir", "log_dir"}))

C6_Witness ==
    /\ pc = "done"
    /\ manifest = [readable |-> TRUE, lines |-> <<HeaderLine, BadLine>>]
    /\ result = Raised("SystemExit")
    /\ dirs = {"out_dir", "log_dir"}

\* C7 as stated: every invocation that has ended, a configuration error
\* included, has written a run log, and the report whenever verification ran.
C7_EveryRunLeavesLog ==
    pc = "done" => (log.exists /\ (verify.runs > 0 => report.exists))

IsPrefix(a, b) == Len(a) <= Len(b) /\ SubSeq(b, 1, Len(a)) = a

\* C7 amended: an invocation whose manifest was accepted has written the run
\* log, starting with the parameter block, before it returns or raises, and
\* the report whenever verification ran; a configuration error leaves no log.
C7_AcceptedRunLeavesLog ==
    pc = "done" =>
        /\ log.exists = ~ManifestBad(manifest)
        /\ log.exists => (~log.open /\ IsPrefix(HeaderBlock(args, manifest), log.lines))
        /\ verify.runs > 0 =>
              (report.exists /\ Len(report.rows) = Len(manifest_rows) + 1 /\ HasKind("VERIFY"))

C7_Witness ==
    /\ pc = "done"
    /\ result = Returned(VerifyFailCode)
    /\ child.code = 0
    /\ verify.runs = 1 /\ report.exists /\ log.exists

InLoop == pc \in {"poll", "count", "lock", "tail", "render", "sleep"}

LoopExited == rpc # "none" /\ ~InLoop

\* C8: once the exit status is available the poll loop ends; it ends on a poll
\* that saw the status, followed by one count and one rendering and no sleep,
\* and the loop sleeps only after a poll that saw no status.
C8_LoopEndsAfterFinalCount ==
    /\ (InLoop /\ child.state = "exited") ~> LoopExited
    /\ [](LoopExited => (rc = <<child.code>> /\ sincePoll = <<"count", "render">>))
    /\ [](pc = "sleep" => rc = <<>>)
    /\ [][(pc = "poll" /\ child.state = "exited" /\ pc' # "poll") => rc' # <<>>]_vars

C8_Witness ==
    /\ pc = "join" /\ rc # <<>>
    /\ sincePoll = <<"count", "render">>
    /\ shown # <<>> /\ shown[1].done > initial_done

\* C9: every progress line shows as resumed_from the number of expected paths
\* that existed when the run started; the value is computed before the spawn
\* and never changes afterwards.
C9_ResumedFromIsInitialCount ==
    LET K == CountCompleted(ReadManifest(manifest).rows, disk0)
    IN  /\ ChildRan => initial_done = K
        /\ shown # <<>> => shown[1].resumed_from = K

C9_Witness ==
    /\ shown # <<>>
    /\ shown[1].resumed_from = 1
    /\ shown[1].done = 3
    /\ Len(manifest_rows) = 3

\* C10: while the client only creates files, the counts of successive polls
\* never decrease and none is below the count taken at launch.
C10_CountsNonDecreasing ==
    /\ [][(done # <<>> /\ done' # <<>>) => done'[1] >= done[1]]_vars
    /\ [](done # <<>> => (done[1] >= initial_done /\ done[1] <= total))

C10_Witness ==
    /\ shown # <<>> /\ done # <<>>
    /\ shown[1].done > initial_done
    /\ done[1] > shown[1].done

\* ------------------------------------------------ standalone calls
VerifyCalls == {k \in 1..Len(calls) : calls[k].op = "verify"}

CountCalls == {k \in 1..Len(calls) : calls[k].op = "count"}

RowPath(i) == ExpectedPath(OutDir, manifest_rows[i].id, manifest_rows[i].filename)

\* C11: every record of a verifier pass has the path <out>/<id>/<filename> and
\* exactly one status: MISSING iff that path does not exist, EMPTY iff it
\* exists with size 0, OK iff it exists with a size above 0, whatever it holds.
C11_VerifierClassifies ==
    \A k \in VerifyCalls : \A i \in 1..Len(manifest_rows) :
        i + 1 <= Len(calls[k].report) =>
            LET rec == calls[k].report[i + 1]
                d   == calls[k].disk
                p   == << <<"out">>, manifest_rows[i].id, manifest_rows[i].filename >>
            IN  /\ rec[3] = <<"out", "/">> \o manifest_rows[i].id \o <<"/">>
                              \o manifest_rows[i].filename
                /\ rec[4] \in {<<"MISSING">>, <<"EMPTY">>, <<"OK">>}
                /\ (rec[4] = <<"MISSING">>) <=> (p \notin DOMAIN d)
                /\ (rec[4] = <<"EMPTY">>) <=> (p \in DOMAIN d /\ Len(d[p]) = 0)
                /\ (rec[4] = <<"OK">>) <=> (p \in DOMAIN d /\ Len(d[p]) > 0)

C11_Witness ==
    \E j, k \in VerifyCalls :
        /\ Len(manifest_rows) = 2 /\ RowPath(1) # RowPath(2)
        /\ calls[j].report[2][4] = <<"OK">> /\ calls[j].disk[RowPath(1)] = <<"x">>
        /\ calls[j].report[3][4] = <<"EMPTY">>
        /\ calls[k].report[2][4] = <<"OK">>
        /\ calls[k].report[3][4] = <<"MISSING">>

\* C12: the report of a verifier pass is the fixed header followed by one
\* record per manifest row, the i-th with the id and filename of the i-th
\* row, also when rows repeat an id.
C12_ReportFollowsManifest ==
    \A k \in VerifyCalls :
        /\ Len(calls[k].report) = Len(manifest_rows) + 1
        /\ calls[k].report[1] =
              << <<"id">>, <<"filename">>, <<"expected_path">>, <<"status">>, <<"size_bytes">> >>
        /\ \A i \in 1..Len(manifest_rows) :
              /\ calls[k].report[i + 1][1] = manifest_rows[i].id
              /\ calls[k].report[i + 1][2] = manifest_rows[i].filename
        /\ (k = Len(calls) => report = [exists |-> TRUE, rows |-> calls[k].report])

C12_Witness ==
    \E k \in VerifyCalls :
        /\ Len(manifest_rows) = 2
        /\ manifest_rows[2].id = manifest_rows[1].id
        /\ manifest_rows[2].filename # manifest_rows[1].filename
        /\ calls[k].report[2][4] = <<"MISSING">>
        /\ calls[k].report[3][4] = <<"EMPTY">>

AllFilesGood ==
    \A i \in 1..Len(manifest_rows) :
        RowPath(i) \in DOMAIN disk /\ Len(disk[RowPath(i)]) > 0

\* C14: when the client exited 0 and every expected file of the N rows is on
\* the disk and non-empty, the last count is N, a verifier pass reports OK=N
\* MISSING=0 EMPTY=0, and main() returns 0.
C14_CompleteRunSucceeds ==
    (pc = "done" /\ child.state = "exited" /\ child.code = 0 /\ AllFilesGood) =>
        /\ done = <<Len(manifest_rows)>>
        /\ CountCompleted(manifest_rows, disk) = Len(manifest_rows)
        /\ args.verify_after =>
              verify = [runs |-> 1, ok |-> Len(manifest_rows), missing |-> 0, empty |-> 0]
        /\ result = Returned(0)

C14_Witness ==
    /\ pc = "done" /\ child.state = "exited" /\ child.code = 0 /\ AllFilesGood
    /\ Len(manifest_rows) = 3 /\ disk0 = <<>>
    /\ args.verify_after /\ args.fail_on_verify
    /\ verify.ok = 3 /\ result = Returned(0)

\* C15: a call of the counter changes neither the disk nor the rows, and two
\* calls over the same tree return the same count.
C15_CounterReadOnlyAndRepeatable ==
    /\ [][(\E k \in 1..Len(calls') : k > Len(calls) /\ calls'[k].op = "count") =>
             (disk' = disk /\ manifest_rows' = manifest_rows /\ report' = report
                /\ dirs' = dirs)]_vars
    /\ [](\A j, k \in CountCalls :
             calls[j].disk = calls[k].disk => calls[j].ret = calls[k].ret)

C15_Witness ==
    /\ Len(calls) = 2
    /\ calls[1].op = "count" /\ calls[2].op = "count"
    /\ calls[1].ret[1] = 1 /\ Len(manifest_rows) = 2

\* ------------------------------------------------ the parser alone
HasTab(line) == \E i \in 1..Len(line) : line[i] = TAB

FirstTab(line) == CHOOSE i \in 1..Len(line) : line[i] = TAB /\ \A j \in 1..(i - 1) : line[j] # TAB

\* where the second field of a line with a separator ends
SecondEnd(line) ==
    CHOOSE e \in (FirstTab(line) + 1)..(Len(line) + 1) :
        /\ \A j \in (FirstTab(line) + 1)..(e - 1) : line[j] \notin {TAB, NL}
        /\ (e <= Len(line) => line[e] \in {TAB, NL})

\* the first two fields of every data line that has a separator, in order
RowsByHand(lines) ==
    LET good == SelectSeq(Tail(lines), HasTab)
    IN  [i \in 1..Len(good) |->
            [id       |-> SubSeq(good[i], 1, FirstTab(good[i]) - 1),
             filename |-> SubSeq(good[i], FirstTab(good[i]) + 1, SecondEnd(good[i]) - 1)]]

\* C16: a data line without a second field raises nothing and adds no row;
\* the rows are the first two fields of the other data lines, in order, and a
\* parse of the file with such a line deleted returns the same rows.
C16_MalformedLinesSkipped ==
    /\ \A k \in 1..Len(parsed) :
          parsed[k].res.err = "" => parsed[k].res.rows = RowsByHand(parsed[k].lines)
    /\ \A j, k \in 1..Len(parsed) :
          (\E n \in 2..Len(parsed[j].lines) :
               ~HasTab(parsed[j].lines[n]) /\ parsed[k].lines = RemoveAt(parsed[j].lines, n))
          => parsed[k].res = parsed[j].res

C16_Witness ==
    /\ Len(parsed) = 2
    /\ Len(parsed[1].lines) = 3 /\ parsed[1].lines[2] = BadLine
    /\ Len(parsed[1].lines[3]) = 6
    /\ parsed[2].lines = RemoveAt(parsed[1].lines, 2)
    /\ parsed[1].res.err = ""
    /\ parsed[1].res.rows = <<[id |-> <<IdNames[3]>>, filename |-> <<FileNames[3]>>]>>

HeaderText(lines) == IF lines = <<>> THEN <<>> ELSE RStripNL(lines[1])

\* C17 as stated: parsing succeeds exactly when the header is the two column
\* names id, filename and nothing else.
C17_HeaderExactlyTwoColumns ==
    \A k \in 1..Len(parsed) :
        (parsed[k].res.err = "") <=> (HeaderText(parsed[k].lines) = <<"id", TAB, "filename">>)

\* C17: parsing fails with SystemExit, before any data line is read, exactly
\* when the first two tab-separated fields of the first line are not id,
\* filename in that order (an empty file and a one-column header included);
\* it succeeds when they are, whatever columns follow them.
C17_HeaderFirstTwoColumns ==
    \A k \in 1..Len(parsed) :
        LET h == HeaderText(parsed[k].lines)
            firstTwo == /\ Len(h) >= 3
                        /\ SubSeq(h, 1, 3) = <<"id", TAB, "filename">>
                        /\ (Len(h) > 3 => h[4] = TAB)
        IN  /\ parsed[k].res.err \in {"", "SystemExit"}
            /\ (parsed[k].res.err = "") <=> firstTwo
            /\ (parsed[k].res.err = "SystemExit") => parsed[k].res.rows = <<>>

C17_Witness ==
    \E k \in 1..Len(parsed) :
        /\ HeaderText(parsed[k].lines) = <<"id", TAB, "filename", TAB, "md5">>
        /\ parsed[k].res.err = ""
        /\ Len(parsed[k].res.rows) = 2

\* ------------------------------------------------ two runs
\* C18: no log file in the directory was ever opened by two invocations, none
\* holds lines of two invocations, and no invocation's lines were truncated
\* away by the other.
C18_LogOwnedByOneRun ==
    \A n \in DOMAIN logdir :
        /\ Cardinality(logdir[n].openers) <= 1
        /\ logdir[n].lost = {}
        /\ \A i, j \in 1..Len(logdir[n].lines) : logdir[n].lines[i].by = logdir[n].lines[j].by

\* ------------------------------------------------ the layout of the log
KindAt(kind) == {i \in 1..Len(log.lines) : log.lines[i].kind = kind}

\* C19: the log starts with the launch command and the rest of the parameter
\* block, every child line comes after the block, and once the verification
\* summary is written it comes after every child line and ends the log.
C19_LogLayout ==
    log.exists =>
        /\ log.lines[1].kind = "CMD"
        /\ IsPrefix(HeaderBlock(args, manifest), log.lines)
        /\ \A i \in KindAt("CHILD") : i > Len(HeaderBlock(args, manifest))
        /\ KindAt("VERIFY") # {} =>
              /\ verify.runs = 1
              /\ KindAt("VERIFY") = {Len(log.lines) - 1}
              /\ KindAt("VERIFY_REPORT") = {Len(log.lines)}
              /\ log.lines[Len(log.lines) - 1].text = <<verify.ok, verify.missing, verify.empty>>
              /\ \A i \in KindAt("CHILD") : i < Len(log.lines) - 1
        /\ (pc = "done" /\ verify.runs > 0) => KindAt("VERIFY") # {}

C19_Witness ==
    /\ pc = "done" /\ rpc = "crashed"
    /\ KindAt("CHILD") # {}
    /\ KindAt("VERIFY") = {Len(log.lines) - 1}
    /\ nOut = 2

\* t is line without the white space at its two ends
StrippedOf(t, line) ==
    \E i \in 1..(Len(line) + 1) : \E j \in (i - 1)..Len(line) :
        /\ SubSeq(line, i, j) = t
        /\ \A k \in (1..(i - 1)) \cup ((j + 1)..Len(line)) : IsSpace(line[k])
        /\ t # <<>> => (~IsSpace(t[1]) /\ ~IsSpace(t[Len(t)]))

Logged(t) == \E i \in KindAt("CHILD") : StrippedOf(t, log.lines[i].text)

\* C20: the most-recent-line cell, and every value the foreground loop took
\* from it, is empty or the stripped text of a child line the log already
\* holds; the cell only ever changes to a line logged before the change.
C20_CellHoldsLoggedLine ==
    /\ [](last_line = <<>> \/ Logged(last_line))
    /\ [](tail = <<>> \/ Logged(tail))
    /\ [][last_line' # last_line => Logged(last_line')]_vars

C20_Witness ==
    /\ tail = <<"E", "R", "R", "O", "R">>
    /\ last_line = <<"o", "k">>
    /\ Cardinality(KindAt("CHILD")) = 2
    /\ pc = "render"

\* ------------------------------------------------ the lock
\* C21: the cell is written only by the reader holding the lock and read only
\* by main holding the lock; the two are never both inside; while the lock is
\* held nothing but the one read or write happens in the holder (no log
\* write, no count, no sleep); and whoever holds the lock releases it.
C21_CellUnderLock ==
    /\ [](/\ lock \in {"free", "main", "reader"}
          /\ (pc = "tail") <=> (lock = "main")
          /\ (rpc = "set") <=> (lock = "reader")
          /\ ~(pc = "tail" /\ rpc = "set"))
    /\ [][(last_line' # last_line) => (lock = "reader" /\ lock' = "free")]_vars
    /\ [][(pc = "tail" /\ pc' # "tail") => (lock = "main" /\ lock' = "free" /\ tail' = last_line)]_vars
    /\ [][(tail' # tail) => (lock = "main")]_vars
    /\ [][(lock = "main" /\ pc' # pc) =>
             (pc' = "render" /\ done' = done /\ sincePoll' = sincePoll /\ shown' = shown)]_vars
    /\ [][(lock = "reader" /\ rpc' # rpc) => (rpc' = "read" /\ log' = log /\ pipe' = pipe)]_vars
    /\ (lock = "main") ~> (lock = "free")
    /\ (lock = "reader") ~> (lock = "free")
    /\ (pc = "lock") ~> (pc = "tail")

C21_Witness ==
    /\ pc = "lock" /\ lock = "reader" /\ rpc = "set"
    /\ tail # <<>> /\ tail # Strip(rline)

\* ------------------------------------------------ the log handle
ReaderAlive == rpc \in {"read", "write", "lock", "set"}

\* C22: main writes the [ERROR] line to lf, and leaves the with block that
\* closes lf, only when the reader thread has ended.
C22_HandleNotShared ==
    [][(pc = "check_rc" /\ pc' # pc) => ~ReaderAlive]_vars

\* ------------------------------------------------ one child, one reader
\* C23: the child is spawned at most once, from the one Popen call, and an
\* exited child is never started again; the reader thread is started at most
\* once, right after the spawn; while the child runs and main is in its poll
\* loop, the reader thread is alive beside it.
C23_OneChildOneReader ==
    /\ [][(child'.state = "running" /\ child.state # "running") =>
             (child.state = "none" /\ pc = "popen")]_vars
    /\ [][(child.state # "none") => (child'.state # "none" /\ pc' # "popen")]_vars
    /\ [][(rpc' = "read" /\ rpc \notin {"set", "read"}) =>
             (rpc = "none" /\ pc = "start_thread" /\ child.state # "none")]_vars
    /\ [][(rpc # "none") => (rpc' # "none" /\ pc' # "start_thread")]_vars
    /\ []((InLoop /\ child.state = "running") => ReaderAlive)
    /\ []((pc = "done" /\ ChildRan) => child.state = "exited")

C23_Witness ==
    /\ pc = "done" /\ ChildFailed /\ result = Returned(child.code)
    /\ rpc = "done" /\ nOut = 2
    /\ args.verify_after /\ args.fail_on_verify

\* ------------------------------------------------ the pace of the loop
\* C24: every poll but the first comes right after one sleep, which took the
\* configured interval or 1 second if that is larger, so at least 1 second;
\* between two polls there is exactly one count, one rendering and one sleep.
C24_SleepBetweenPolls ==
    /\ [][(pc = "poll" /\ pc' # "poll" /\ shown # <<>>) =>
             /\ sincePoll = <<"count", "render", "sleep">>
             /\ slept # <<>>
             /\ slept[1] >= 1
             /\ slept[1] >= args.progress_every
             /\ slept[1] \in {1, args.progress_every}]_vars
    /\ [][(pc = "render" /\ pc' = "poll") => FALSE]_vars
    /\ [](pc = "poll" => (shown = <<>> \/ slept # <<>>))

C24_Witness ==
    /\ pc = "poll" /\ shown # <<>>
    /\ args.progress_every = 0 /\ slept = <<1>>
    /\ child.state = "running"

\* ------------------------------------------------ the excerpt
\* the word w occurs in t when letter case is ignored
HasWord(t, w) ==
    \E i \in 1..(Len(t) - Len(w) + 1) : \A j \in 1..Len(w) : LowerChar(t[i + j - 1]) = w[j]

FirstChars(t, n) == [i \in 1..(IF Len(t) < n THEN Len(t) ELSE n) |-> t[i]]

ExcerptRule(words) ==
    shown # <<>> =>
        /\ (shown[1].tail_short # <<>>) <=> (tail # <<>> /\ \E w \in words : HasWord(tail, w))
        /\ shown[1].tail_short \in {<<>>, FirstChars(tail, 120)}

\* C25 as stated: the excerpt is shown exactly for a non-empty line with one
\* of transfer, error, retry, complete, saved, skipping.
C25_ExcerptOnTransferKeywords ==
    ExcerptRule({ <<"t","r","a","n","s","f","e","r">>, <<"e","r","r","o","r">>,
                  <<"r","e","t","r","y">>, <<"c","o","m","p","l","e","t","e">>,
                  <<"s","a","v","e","d">>, <<"s","k","i","p","p","i","n","g">> })

\* C25: the excerpt is shown exactly for a non-empty line that has, in any
\* letter case, one of download, error, retry, complete, saved, skipping; it
\* is the first 120 characters of the line, and there is none otherwise.
C25_ExcerptOnDownloadKeywords ==
    ExcerptRule({ <<"d","o","w","n","l","o","a","d">>, <<"e","r","r","o","r">>,
                  <<"r","e","t","r","y">>, <<"c","o","m","p","l","e","t","e">>,
                  <<"s","a","v","e","d">>, <<"s","k","i","p","p","i","n","g">> })

C25_Witness ==
    /\ shown # <<>> /\ Len(tail) > 120
    /\ Len(shown[1].tail_short) = 120
    /\ HasWord(tail, <<"s","a","v","e","d">>)
    /\ ~HasWord(shown[1].tail_short, <<"s","a","v","e","d">>)

\* ------------------------------------------------ counts against each other
\* C26: the triple of a verifier pass sums to the number of rows, and a count
\* taken on the same tree equals ok + empty: an empty file is counted as
\* completed although the verifier does not take it for OK.
C26_CountsAgree ==
    /\ \A k \in VerifyCalls :
          calls[k].ret[1] + calls[k].ret[2] + calls[k].ret[3] = Len(manifest_rows)
    /\ \A j \in VerifyCalls : \A k \in CountCalls :
          calls[j].disk = calls[k].disk => calls[k].ret[1] = calls[j].ret[1] + calls[j].ret[3]

C26_Witness ==
    \E j \in VerifyCalls : \E k \in CountCalls :
        /\ calls[j].disk = calls[k].disk
        /\ Len(manifest_rows) = 2
        /\ calls[k].ret = <<2>>
        /\ calls[j].ret = <<1, 0, 1>>

\* ------------------------------------------------ the numbers of a rendering
\* C27: in the loop total is the number of rows and above 0; every count is
\* between 0 and total; every progress line shows such numbers and a
\* percentage between 0 and 100; a manifest without rows never gets there.
C27_ProgressNumbersInRange ==
    /\ InLoop => (total > 0 /\ total = Len(manifest_rows))
    /\ done # <<>> => (0 <= done[1] /\ done[1] <= total)
    /\ shown # <<>> =>
          /\ shown[1].total = total /\ total > 0
          /\ 0 <= shown[1].done /\ shown[1].done <= shown[1].total
          /\ shown[1].pct \in 0..100
          /\ (shown[1].pct = 100) <=> (shown[1].done = shown[1].total)
    /\ ManifestBad(manifest) => (~InLoop /\ shown = <<>> /\ done = <<>>)

C27_Witness ==
    /\ shown # <<>> /\ shown[1].total = 3 /\ shown[1].done = 2 /\ shown[1].pct = 66
    /\ done = <<3>> /\ pc = "render"

\* ------------------------------------------------ the fields of a row
\* C28: every row the parser returns has a non-empty id and a non-empty
\* filename, and its expected path has the three parts out, id, filename.
C28_RowsHaveBothFields ==
    \A k \in 1..Len(parsed) : \A i \in 1..Len(parsed[k].res.rows) :
        LET r == parsed[k].res.rows[i]
        IN  /\ r.id # <<>>
            /\ r.filename # <<>>
            /\ ExpectedPath(OutDir, r.id, r.filename) = OutDir \o <<r.id, r.filename>>

\* ------------------------------------------------ the log of a failed launch
\* C29: when the spawn is attempted the log exists and holds the parameter
\* block; after a failed spawn it is closed and still holds exactly that
\* block (no child line, no [ERROR] line, no [VERIFY] block), no reader
\* thread was started, the verifier has not run and there is no report.
C29_LaunchFailureLog ==
    /\ pc = "popen" => (log.exists /\ log.open /\ log.lines = HeaderBlock(args, manifest))
    /\ LaunchFailed =>
          /\ log.exists /\ ~log.open
          /\ log.lines = HeaderBlock(args, manifest)
          /\ \A kind \in {"CHILD", "ERROR", "VERIFY", "VERIFY_REPORT"} : KindAt(kind) = {}
          /\ rpc = "none" /\ child.state = "none" /\ nOut = 0
          /\ verify.runs = 0 /\ ~report.exists
          /\ disk = disk0

C29_Witness ==
    /\ LaunchFailed /\ args.verify_after /\ args.fail_on_verify
    /\ Len(log.lines) = 5 /\ ~log.open
    /\ disk # <<>>

====
